---- MODULE Spec2Model ----
(***************************************************************************)
(* Model of torch_landscape/directions.py: the direction builders used to  *)
(* visualise a loss landscape.  The parts, each with its own specification *)
(* over the shared variables:                                               *)
(*   SpecTrain     the training loop of the two learnable builders         *)
(*   SpecBuild     construction of the learnable builders and the set-up   *)
(*                 of create_learnable_directions                          *)
(*   SpecStore     the trajectory kept by the constructor of each builder  *)
(*   SpecPca       eigenpairs and directions of PcaDirections              *)
(*   SpecNorm      normalize_direction on one tensor pair                  *)
(*   SpecNormList  normalize_direction_using_params on two lists           *)
(*   SpecFrame     the tensors each builder reads, creates and writes      *)
(*   SpecConfig    the configuration a learnable builder trains with       *)
(*   SpecTrajectory  PCA and SVD of one trajectory                         *)
(*   SpecTrainFair the training loop, running on to its end                *)
(***************************************************************************)
EXTENDS Integers, Sequences, FiniteSets, TLC

VARIABLES
    \* ---- training loop (directions.py 413-438 and 617-642)
    variant,                \* "linear" | "nonlinear": which builder runs the loop
    training_epochs,        \* argument
    early_stopping_epochs,  \* argument
    pc,                     \* "loop" | "load" | "done" | "error" | "idle"
    pbar,                   \* number of items already taken from range(training_epochs)
    epoch,                  \* the loop variable; -1 while it is still unbound
    best_epoch,
    best_loss,
    best_model_state_dict,  \* None or <<weights>>
    model_weights,          \* the model's current weights: number of optimizer steps applied
    history,                \* per executed epoch: <<epoch_loss, weights the loss was computed
                            \* from, whether the epoch improved on best_loss>>
    broke,                  \* TRUE once the loop was left by `break`
    returned,               \* None or <<weights>> of the returned model
    \* ---- builder construction and the set-up of create_learnable_directions
    cls,                    \* the builder class being used
    trajectory,             \* the caller's trajectory: a sequence of ParameterSets
    traj_losses,            \* the caller's loss of each snapshot
    number_of_layers,       \* argument
    intermediate_basis_count, \* argument (a tuple of ints)
    builder,                \* per caller: None or <<the fields __init__ stored>>
    ctor_result,            \* per caller: "none" | "ok" | "ValueError"
    create_result,          \* per caller: "none" | "training" | the exception raised
    create_trace,           \* per caller: the computation steps done by the call, in order
    options,                \* the other keyword arguments of the learnable builders' __init__
    chain,                  \* per caller: None or <<the autoencoder and the training set-up
                            \* that create_learnable_directions made>>
    forward,                \* per caller: None or <<the forward pass of the linear autoencoder>>
    \* ---- PcaDirections.create_pca_directions
    covariance_matrix,      \* the diagonal of a diagonal covariance matrix: its eigenvalues;
                            \* the eigenvector of entry i is the unit vector e_i, named i
    eigen_values,           \* as returned by _calculate_eigenpairs
    eigen_vectors,          \* column c is the eigenvector named eigen_vectors[c]
    logged,                 \* the two logged percentages, each <<numerator, denominator>>
    b1, b2,                 \* the returned eigenvectors (their names), 0 before the return
    pca_result,             \* "samples" | "none" | "solved" | "ok" | "IndexError"
    samples,                \* the flattened snapshots minus the flattened optimized
                            \* parameters: a sequence of integer vectors
    svd_directions,         \* None or <<b1, b2>> of SvdDirections (names of unit vectors)
    \* ---- normalize_direction and normalize_direction_using_params
    direction,              \* the list of direction tensors (rescaled in place)
    parameters,             \* the list of parameter tensors
    direction0,             \* the direction tensors as they were before the call
    parameters0,            \* the parameter tensors as they were before the call
    norm_result,            \* "none" | "ok" | "AssertionError"
    \* ---- tensor storage seen by a builder's constructor and calculate_directions
    frame_cls,              \* the builder class being used
    apply_normalization,    \* argument of RandomDirections.calculate_directions
    heap,                   \* tensor id -> content, a cell <<tag, n>>; ids are 1..Len(heap)
    frame_parameters,       \* the caller's optimized parameters: tensor ids
    frame_trajectory,       \* the caller's snapshots: each a sequence of tensor ids
    frame_self,             \* None or <<_optimized_parameters, _intermediate_parameters>>
    frame_result,           \* "none" | "built" | "ValueError" | "done"
    frame_out               \* None or <<b1, b2>>, each a sequence of tensor ids

trainVars == <<variant, training_epochs, early_stopping_epochs, pc, pbar, epoch, best_epoch,
               best_loss, best_model_state_dict, model_weights, history, broke, returned>>

buildVars == <<cls, trajectory, traj_losses, number_of_layers, intermediate_basis_count,
               builder, ctor_result, create_result, create_trace, options, chain, forward>>

pcaVars == <<covariance_matrix, eigen_values, eigen_vectors, logged, b1, b2, pca_result,
             samples, svd_directions>>

normVars == <<direction, parameters, direction0, parameters0, norm_result>>

frameVars == <<frame_cls, apply_normalization, heap, frame_parameters, frame_trajectory,
               frame_self, frame_result, frame_out>>

vars == <<trainVars, buildVars, pcaVars, normVars, frameVars>>

otherThanTrain == <<buildVars, pcaVars, normVars, frameVars>>
otherThanBuild == <<trainVars, pcaVars, normVars, frameVars>>
otherThanPca == <<trainVars, buildVars, normVars, frameVars>>
otherThanNorm == <<trainVars, buildVars, pcaVars, frameVars>>
otherThanFrame == <<trainVars, buildVars, pcaVars, normVars>>

-----------------------------------------------------------------------------
(* Bounds *)
MaxEpochs == 4
MaxPatience == 3
MaxLoss == 2
MaxTraj == 2        \* snapshots in a trajectory
MaxParams == 2      \* tensors in a ParameterSet
MaxLayers == 3      \* number_of_layers
MaxBasisLen == 2    \* len(intermediate_basis_count)
MaxBasis == 2       \* an entry of intermediate_basis_count
MaxDim == 7         \* rows of the covariance matrix
MaxEig == 2         \* an eigenvalue of the covariance matrix
MaxRank == 4        \* dimensions of a tensor
MaxNumel == 4       \* elements of a tensor
MaxVal == 1         \* magnitude of a tensor element
MaxList == 2        \* tensors in a list given to normalize_direction_using_params
MaxFeatures == 3    \* elements of a flattened snapshot
MaxCoord == 1       \* magnitude of an element of a flattened snapshot
MaxSamples == 4     \* snapshots of a trajectory given to PCA and SVD

(* Program constants *)
EigenpairCount == 2      \* k=2, and the 2 of `3 * 2`
LobpcgFactor == 3        \* the 3 of `3 * 2`
Bottleneck == 2          \* the last layer has 2 basis vectors

-----------------------------------------------------------------------------
(* Python values *)
None == <<>>

\* Python floats, as far as the loop compares them: a finite value, inf, nan.
Num(n) == <<"num", n>>
PosInf == <<"inf", 0>>
NaN == <<"nan", 0>>
LossValues == {Num(n) : n \in 0..MaxLoss} \cup {PosInf, NaN}

\* a < b on Python floats: false whenever a nan is involved, nothing is below itself.
FloatLess(a, b) ==
    /\ a[1] # "nan"
    /\ b[1] # "nan"
    /\ \/ a[1] = "num" /\ b[1] = "inf"
       \/ a[1] = "num" /\ b[1] = "num" /\ a[2] < b[2]

-----------------------------------------------------------------------------
(* Python containers: <<kind, items>> *)
Tensor(k, j) == <<"tensor", <<k, j>>>>      \* tensor j of snapshot k
Float(v) == <<"float", <<v>>>>
PyList(items) == <<"list", items>>
PyTuple(items) == <<"tuple", items>>
IsTuple(v) == v[1] = "tuple"                \* isinstance(v, tuple)
PyLen(v) == Len(v[2])                       \* len(v)
Items(v) == v[2]

\* All sequences over S of length lo..hi
SeqsOf(S, lo, hi) == UNION {[1..n -> S] : n \in lo..hi}

-----------------------------------------------------------------------------
(* The parts a specification does not exercise rest in these states *)
Callers == {"plain", "pairs", "static"}

IdleTrain ==
    /\ variant = "linear"
    /\ training_epochs = 0
    /\ early_stopping_epochs = 0
    /\ pc = "idle"
    /\ pbar = 0
    /\ epoch = -1
    /\ best_epoch = 0
    /\ best_loss = PosInf
    /\ best_model_state_dict = None
    /\ model_weights = 0
    /\ history = <<>>
    /\ broke = FALSE
    /\ returned = None

\* the defaults of the learnable builders' __init__ (the nonlinear builder's
\* are the same)
DefaultOptions ==
    [learnable_model_device |-> "cpu", autoencoder_lr |-> "0.01", training_epochs |-> 1000,
     early_stopping_epochs |-> 250, activation |-> "relu"]

IdleBuild ==
    /\ cls = "LearnableDirections"
    /\ trajectory = <<>>
    /\ traj_losses = <<>>
    /\ number_of_layers = 0
    /\ intermediate_basis_count = <<>>
    /\ builder = [c \in Callers |-> None]
    /\ ctor_result = [c \in Callers |-> "none"]
    /\ create_result = [c \in Callers |-> "none"]
    /\ create_trace = [c \in Callers |-> <<>>]
    /\ options = DefaultOptions
    /\ chain = [c \in Callers |-> None]
    /\ forward = [c \in Callers |-> None]

IdlePca ==
    /\ covariance_matrix = <<>>
    /\ eigen_values = <<>>
    /\ eigen_vectors = <<>>
    /\ logged = <<>>
    /\ b1 = 0
    /\ b2 = 0
    /\ pca_result = "none"
    /\ samples = <<>>
    /\ svd_directions = None

IdleNorm ==
    /\ direction = <<>>
    /\ parameters = <<>>
    /\ direction0 = <<>>
    /\ parameters0 = <<>>
    /\ norm_result = "none"

IdleFrame ==
    /\ frame_cls = "RandomDirections"
    /\ apply_normalization = TRUE
    /\ heap = <<>>
    /\ frame_parameters = <<>>
    /\ frame_trajectory = <<>>
    /\ frame_self = None
    /\ frame_result = "none"
    /\ frame_out = None

-----------------------------------------------------------------------------
(* Tensors and filter normalization (lines 19-47)                           *)
(* A tensor is [shape, data]; data maps an index tuple to the SQUARE of the *)
(* element, a fraction <<n, d>>: norms and the scaling by a non-negative    *)
(* factor only depend on the squares.                                       *)

Frac(n) == <<n, 1>>
FracAdd(a, b) == <<a[1] * b[2] + b[1] * a[2], a[2] * b[2]>>
FracMul(a, b) == <<a[1] * b[1], a[2] * b[2]>>
FracDiv(a, b) == <<a[1] * b[2], a[2] * b[1]>>       \* b not zero
FracEq(a, b) == a[1] * b[2] = b[1] * a[2]
IsZero(a) == a[1] = 0

RECURSIVE Product(_)
Product(q) == IF q = <<>> THEN 1 ELSE q[1] * Product(Tail(q))

Shapes == {sh \in SeqsOf(1..MaxNumel, 1, MaxRank) : Product(sh) <= MaxNumel}

Indices(shape) ==
    {idx \in [DOMAIN shape -> 1..MaxNumel] : \A d \in DOMAIN shape : idx[d] <= shape[d]}

\* every tensor of a shape with elements of magnitude 0..MaxVal
TensorsOf(shape) ==
    {[shape |-> shape, data |-> [idx \in Indices(shape) |-> Frac(v[idx] * v[idx])]] :
        v \in [Indices(shape) -> 0..MaxVal]}

Rank(t) == Len(t.shape)                      \* t.dim()

RECURSIVE SumAlong(_, _, _, _)
SumAlong(t, idx, axis, j) ==
    IF j = 0 THEN Frac(0)
    ELSE FracAdd(SumAlong(t, idx, axis, j - 1), t.data[[idx EXCEPT ![axis] = j]])

\* t.norm(dim=axis, keepdim=True), squared: the sum of squares along one axis
NormSquared(t, axis) ==
    LET shape == [t.shape EXCEPT ![axis] = 1]
    IN  [shape |-> shape,
         data |-> [idx \in Indices(shape) |-> SumAlong(t, idx, axis, t.shape[axis])]]

\* `norm_dimensions = 1 if parameters.dim() > 1 else 0` (line 42), axes counted from 1
NormDimensions(params) == IF Rank(params) > 1 THEN 2 ELSE 1

\* normalize_direction (lines 42-47): the direction after `direction *= scaling_factor`.
\* scaling_factor = norm_parameters / (norm_direction + 1e-10) broadcasts along the
\* reduced axis; an element that is zero stays zero, and for a non-zero norm the
\* 1e-10 is dropped.
NormalizeDirection(dir, params) ==
    LET axis == NormDimensions(params)
        norm_direction == NormSquared(dir, axis)
        norm_parameters == NormSquared(params, axis)
        kept(idx) == [idx EXCEPT ![axis] = 1]
    IN  [shape |-> dir.shape,
         data |-> [idx \in Indices(dir.shape) |->
                     IF IsZero(dir.data[idx]) THEN Frac(0)
                     ELSE FracMul(dir.data[idx],
                                  FracDiv(norm_parameters.data[kept(idx)],
                                          norm_direction.data[kept(idx)]))]]

Min(a, b) == IF a < b THEN a ELSE b

\* the loop `for direction_i, parameter_i in zip(direction, parameters)` (lines 28-29)
NormalizeZipped(dirs, params) ==
    [i \in 1..Len(dirs) |->
        IF i <= Min(Len(dirs), Len(params)) THEN NormalizeDirection(dirs[i], params[i])
        ELSE dirs[i]]

\* normalize_direction_using_params with the assert compiled away
NormalizeUsingParamsUnchecked(dirs, params) == <<"ok", NormalizeZipped(dirs, params)>>

\* normalize_direction_using_params (lines 27-29): <<outcome, the direction list>>
NormalizeUsingParams(dirs, params) ==
    IF Len(dirs) # Len(params) THEN <<"AssertionError", dirs>>
    ELSE <<"ok", NormalizeZipped(dirs, params)>>

\* a call of normalize_direction on one tensor pair
NormalizeDirectionCall ==
    /\ norm_result = "none"
    /\ Len(direction) = 1
    /\ Len(parameters) = 1
    /\ direction' = <<NormalizeDirection(direction[1], parameters[1])>>
    /\ norm_result' = "ok"
    /\ UNCHANGED <<parameters, direction0, parameters0>>
    /\ UNCHANGED otherThanNorm

\* a call of normalize_direction_using_params on the two lists
NormalizeUsingParamsCall ==
    /\ norm_result = "none"
    /\ LET r == NormalizeUsingParams(direction, parameters)
       IN  /\ norm_result' = r[1]
           /\ direction' = r[2]
    /\ UNCHANGED <<parameters, direction0, parameters0>>
    /\ UNCHANGED otherThanNorm

\* one direction tensor and one parameter tensor of the same shape
InitNorm ==
    /\ IdleTrain
    /\ IdleBuild
    /\ IdlePca
    /\ IdleFrame
    /\ \E shape \in Shapes :
          /\ direction \in {<<t>> : t \in TensorsOf(shape)}
          /\ parameters \in {<<t>> : t \in TensorsOf(shape)}
    /\ direction0 = direction
    /\ parameters0 = parameters
    /\ norm_result = "none"

NormNext == NormalizeDirectionCall

SpecNorm == InitNorm /\ [][NormNext]_vars

\* lists of up to MaxList tensors of shape <<2>>; the direction tensors are
\* all ones, the parameter tensors vary
InitNormList ==
    /\ IdleTrain
    /\ IdleBuild
    /\ IdlePca
    /\ IdleFrame
    /\ direction \in SeqsOf({[shape |-> <<2>>, data |-> [idx \in Indices(<<2>>) |-> Frac(1)]]},
                             0, MaxList)
    /\ parameters \in SeqsOf(TensorsOf(<<2>>), 0, MaxList)
    /\ direction0 = direction
    /\ parameters0 = parameters
    /\ norm_result = "none"

NormListNext == NormalizeUsingParamsCall

SpecNormList == InitNormList /\ [][NormListNext]_vars

\* the sum of squares of t over a set of indices
RECURSIVE SumOver(_, _)
SumOver(t, idxs) ==
    IF idxs = {} THEN Frac(0)
    ELSE LET i == CHOOSE i \in idxs : TRUE
         IN  FracAdd(t.data[i], SumOver(t, idxs \ {i}))

\* the indices of the output unit of idx: all of them for a 1-D tensor, those
\* with the same first index otherwise
UnitOf(t, idx) ==
    {i \in Indices(t.shape) : Rank(t) > 1 => i[1] = idx[1]}

\* C8 (as claimed): every element of the direction is rescaled by the ratio of
\* the parameter norm to the direction norm of its output unit, the norms
\* taken over all dimensions except the first (over the whole tensor when it
\* is 1-dimensional), for tensors of any number of dimensions.
C8_NormPerOutputUnit ==
    norm_result = "ok" =>
        LET d0 == direction0[1]
            par == parameters[1]
            out == direction[1]
        IN  \A idx \in Indices(d0.shape) :
                FracEq(FracMul(out.data[idx], SumOver(d0, UnitOf(d0, idx))),
                       FracMul(d0.data[idx], SumOver(par, UnitOf(par, idx))))

\* C9: with lists of different lengths normalize_direction_using_params fails
\* and leaves every direction tensor as it was; with equal lengths it succeeds
\* and direction tensor i is the normalization of the former tensor i against
\* parameter tensor i; the parameter tensors are never changed.
C9_ListNormalization ==
    norm_result # "none" =>
        /\ parameters = parameters0
        /\ Len(direction0) # Len(parameters0) =>
              norm_result = "AssertionError" /\ direction = direction0
        /\ Len(direction0) = Len(parameters0) =>
              /\ norm_result = "ok"
              /\ Len(direction) = Len(direction0)
              /\ \A i \in 1..Len(direction0) :
                    direction[i] = NormalizeDirection(direction0[i], parameters0[i])

\* two direction tensors were normalized against two different parameter
\* tensors and came out different from each other
C9_Witness ==
    /\ norm_result = "ok"
    /\ Len(direction) = 2
    /\ parameters[1] # parameters[2]
    /\ direction[1] # direction[2]
    /\ direction # direction0

-----------------------------------------------------------------------------
(* PcaDirections: eigenpairs of the covariance matrix and the two directions *)

RECURSIVE SumSeq(_)
SumSeq(q) == IF q = <<>> THEN 0 ELSE q[1] + SumSeq(Tail(q))

\* the index to come first among `left`: the smallest value, the lowest index on a tie
FirstAscending(vals, left) ==
    CHOOSE i \in left : \A j \in left : vals[i] < vals[j] \/ (vals[i] = vals[j] /\ i <= j)

\* the index to come first among `left`: the largest value, the lowest index on a tie
FirstDescending(vals, left) ==
    CHOOSE i \in left : \A j \in left : vals[i] > vals[j] \/ (vals[i] = vals[j] /\ i <= j)

RECURSIVE ArgsortFrom(_, _, _)
ArgsortFrom(vals, left, descending) ==
    IF left = {} THEN <<>>
    ELSE LET i == IF descending THEN FirstDescending(vals, left)
                  ELSE FirstAscending(vals, left)
         IN  <<i>> \o ArgsortFrom(vals, left \ {i}, descending)

\* every order of the indices in `left` that sorts vals ascending
RECURSIVE AscendingOrders(_, _)
AscendingOrders(vals, left) ==
    IF left = {} THEN {<<>>}
    ELSE UNION {{<<i>> \o rest : rest \in AscendingOrders(vals, left \ {i})} :
                   i \in {i \in left : \A j \in left : vals[i] <= vals[j]}}

\* the sort of line 238 with descending=True left out
ArgsortWithoutDescending(vals) == ArgsortFrom(vals, DOMAIN vals, FALSE)

\* `_, indices = sort(eigen_values, descending=True)` (line 238)
ArgsortDescending(vals) == ArgsortFrom(vals, DOMAIN vals, TRUE)

\* torch.linalg.eigh: every eigenpair, eigenvalues in ascending order (line 263);
\* the eigenvectors of a repeated eigenvalue come in any order
Eigh(diag) ==
    {<<[c \in DOMAIN order |-> diag[order[c]]], order>> :
        order \in AscendingOrders(diag, DOMAIN diag)}

\* torch.lobpcg(largest=True, k=2): two eigenpairs of the two largest eigenvalues,
\* in either order (line 260)
Lobpcg(diag) ==
    {<<<<diag[i], diag[j]>>, <<i, j>>>> :
        <<i, j>> \in {p \in (DOMAIN diag) \X (DOMAIN diag) :
                        /\ p[1] # p[2]
                        /\ \A k \in DOMAIN diag \ {p[1], p[2]} :
                              diag[k] <= diag[p[1]] /\ diag[k] <= diag[p[2]]}}

\* `covariance_matrix.size(dim=0) > 3 * 2` (line 258)
UsesLobpcg(diag) == Len(diag) > LobpcgFactor * EigenpairCount

\* PcaDirections._calculate_eigenpairs (lines 251-264): the possible results
CalculateEigenpairsOf(diag) == IF UsesLobpcg(diag) THEN Lobpcg(diag) ELSE Eigh(diag)

CalculateEigenpairs ==
    /\ pca_result = "none"
    /\ \E r \in CalculateEigenpairsOf(covariance_matrix) :
          /\ eigen_values' = r[1]
          /\ eigen_vectors' = r[2]
    /\ pca_result' = "solved"
    /\ UNCHANGED <<covariance_matrix, logged, b1, b2, samples, svd_directions>>
    /\ UNCHANGED otherThanPca

\* "{}%".format(100 * eigen_values[i] / eigen_values_sum) (lines 239-241)
Percentage(values, i) == <<100 * values[i], SumSeq(values)>>

\* create_pca_directions after the eigenpairs (lines 238-248); indices[1] of a
\* single eigenvalue raises IndexError
SelectDirections ==
    /\ pca_result = "solved"
    /\ LET indices == ArgsortDescending(eigen_values)
       IN  IF Len(indices) < 2
           THEN pca_result' = "IndexError" /\ UNCHANGED <<logged, b1, b2>>
           ELSE /\ logged' = <<Percentage(eigen_values, indices[1]),
                               Percentage(eigen_values, indices[2])>>
                /\ b1' = eigen_vectors[indices[1]]
                /\ b2' = eigen_vectors[indices[2]]
                /\ pca_result' = "ok"
    /\ UNCHANGED <<covariance_matrix, eigen_values, eigen_vectors, samples, svd_directions>>
    /\ UNCHANGED otherThanPca

InitPca ==
    /\ IdleTrain
    /\ IdleBuild
    /\ IdleNorm
    /\ IdleFrame
    /\ covariance_matrix \in SeqsOf(0..MaxEig, 1, MaxDim)
    /\ eigen_values = <<>>
    /\ eigen_vectors = <<>>
    /\ logged = <<>>
    /\ b1 = 0
    /\ b2 = 0
    /\ pca_result = "none"
    /\ samples = <<>>
    /\ svd_directions = None

PcaNext == CalculateEigenpairs \/ SelectDirections

SpecPca == InitPca /\ [][PcaNext]_vars

\* C6 (as claimed): each logged percentage is 100 times the component's
\* eigenvalue divided by the sum of all eigenvalues of the covariance matrix.
C6_LoggedFractionOfTotalVariance ==
    pca_result = "ok" =>
        /\ logged[1][1] * SumSeq(covariance_matrix)
              = 100 * covariance_matrix[b1] * logged[1][2]
        /\ logged[2][1] * SumSeq(covariance_matrix)
              = 100 * covariance_matrix[b2] * logged[2][2]
        /\ logged[1][2] = SumSeq(covariance_matrix)

\* C7: for a covariance matrix of at least two rows, b1 is an eigenvector of
\* the largest eigenvalue and b2 a different eigenvector, of the largest
\* eigenvalue among the others (the second largest), on either solver path.
C7_TopTwoEigenvectors ==
    (pca_result # "none" /\ pca_result # "solved" /\ Len(covariance_matrix) >= 2) =>
        /\ pca_result = "ok"
        /\ b1 \in DOMAIN covariance_matrix
        /\ b2 \in DOMAIN covariance_matrix \ {b1}
        /\ \A k \in DOMAIN covariance_matrix : covariance_matrix[k] <= covariance_matrix[b1]
        /\ \A k \in DOMAIN covariance_matrix \ {b1} :
              covariance_matrix[k] <= covariance_matrix[b2]

\* the iterative solver returned its two eigenpairs smallest first, the
\* eigenvalues differ, and the directions were selected
C7_Witness ==
    /\ pca_result = "ok"
    /\ UsesLobpcg(covariance_matrix)
    /\ eigen_values[1] < eigen_values[2]
    /\ covariance_matrix[b1] > covariance_matrix[b2]
    /\ covariance_matrix[b2] > 0

-----------------------------------------------------------------------------
(* The builders' constructors and the set-up of create_learnable_directions *)

Classes == {"PcaDirections", "SvdDirections", "LearnableDirections",
            "LearnableNonlinearDirections"}
LearnableClasses == {"LearnableDirections", "LearnableNonlinearDirections"}

\* A ParameterSet: m tensors in a list or in a tuple
ParameterSet(kind, k, m) == <<kind, [j \in 1..m |-> Tensor(k, j)]>>

\* The trajectories a caller can hold: n snapshots of m tensors each
Trajectories(kinds) ==
    {<<>>} \cup
    UNION {{[k \in 1..n |-> ParameterSet(ks[k], k, m)] : ks \in [1..n -> kinds]} :
           <<n, m>> \in (1..MaxTraj) \X (1..MaxParams)}

\* The argument `intermediate_parameters` in either accepted form
AsPlain(T) == PyList(T)
AsPairs(T, L) == PyList([k \in 1..Len(T) |-> PyTuple(<<T[k], Float(L[k])>>)])
Argument(caller) ==
    IF caller = "pairs" THEN AsPairs(trajectory, traj_losses) ELSE AsPlain(trajectory)

FreshBuild ==
    /\ builder = [c \in Callers |-> None]
    /\ ctor_result = [c \in Callers |-> "none"]
    /\ create_result = [c \in Callers |-> "none"]
    /\ create_trace = [c \in Callers |-> <<>>]
    /\ chain = [c \in Callers |-> None]
    /\ forward = [c \in Callers |-> None]

\* `[parameters for parameters, loss in intermediate_parameters]`: every item is
\* unpacked into exactly two names; an item of another length raises ValueError.
DropLosses(ip) ==
    IF \E k \in 1..PyLen(ip) : PyLen(Items(ip)[k]) # 2
    THEN <<"ValueError", None>>
    ELSE <<"ok", PyList([k \in 1..PyLen(ip) |-> Items(Items(ip)[k])[1]])>>

\* The trajectory part of __init__ (lines 176-184, 297-305, 497-505, 669-677)
StoreTrajectory(ip) ==
    IF PyLen(ip) = 0 THEN <<"ValueError", None>>
    ELSE IF IsTuple(Items(ip)[1]) THEN DropLosses(ip)
    ELSE <<"ok", ip>>

\* The fields __init__ leaves on the object
Fields(stored) ==
    IF cls \in LearnableClasses
    THEN [_intermediate_parameters |-> stored,
          learnable_model_device |-> options.learnable_model_device,
          number_of_layers |-> number_of_layers,
          autoencoder_lr |-> options.autoencoder_lr,
          training_epochs |-> options.training_epochs,
          early_stopping_epochs |-> options.early_stopping_epochs,
          intermediate_basis_count |-> intermediate_basis_count,
          activation |-> options.activation]
    ELSE [_intermediate_parameters |-> stored]

\* __init__ of the four builders, called with the trajectory in the caller's form
Construct(caller) ==
    LET r == StoreTrajectory(Argument(caller))
    IN  /\ ctor_result[caller] = "none"
        /\ ctor_result' = [ctor_result EXCEPT ![caller] = r[1]]
        /\ builder' = [builder EXCEPT
                          ![caller] = IF r[1] = "ok" THEN <<Fields(r[2])>> ELSE None]
        /\ UNCHANGED <<cls, trajectory, traj_losses, number_of_layers,
                       intermediate_basis_count, create_result, create_trace, options, chain,
                       forward>>
        /\ UNCHANGED otherThanBuild

ConstructPlain == Construct("plain")

ConstructPairs == Construct("pairs")

\* one "flatten_snapshot" step per snapshot (lines 402-405 / 606-609)
FlattenAll(results) == [k \in 1..PyLen(results) |-> "flatten_snapshot"]

\* LearnableAutoEncoder.__init__ of the linear chain (lines 362-377): the assert,
\* then one weight per layer; layer 0 reads intermediate_basis_count[0].
LinearAutoEncoderInit(layers, basis) ==
    IF Len(basis) # layers - 1 THEN <<"AssertionError", <<"model">>>>
    ELSE IF layers >= 1 /\ Len(basis) = 0 THEN <<"IndexError", <<"model">>>>
    ELSE <<"ok", <<"model">> \o [i \in 1..layers |-> "weight"]>>

\* LearnableDirections.create_learnable_directions up to the loop (lines 358-411):
\* <<outcome, computation steps done>>
CreateLinear(results, layers, basis) ==
    IF PyLen(results) = 0 THEN <<"ValueError", <<>>>>
    ELSE LET prep == <<"flatten_parameters">> \o FlattenAll(results)
                         \o <<"stack_dataset", "criterion">>
             m == LinearAutoEncoderInit(layers, basis)
         IN  IF m[1] # "ok" THEN <<m[1], prep \o m[2]>>
             ELSE <<"training", prep \o m[2] \o <<"to_device", "optimizer">>>>

\* LearnableAutoEncoder.__init__ of the nonlinear chain (lines 564-589)
NonlinearAutoEncoderInit(layers, basis) ==
    <<"ok", <<"model">> \o [i \in 1..layers |-> "weight"] \o <<"subspace">>>>

\* LearnableNonlinearDirections.create_learnable_directions up to the loop
\* (lines 558-615)
CreateNonlinear(results, layers, basis) ==
    IF PyLen(results) = 0 THEN <<"ValueError", <<>>>>
    ELSE IF Len(basis) # layers - 1 THEN <<"ValueError", <<>>>>
    ELSE LET prep == <<"flatten_parameters">> \o FlattenAll(results)
                         \o <<"stack_dataset", "criterion">>
             m == NonlinearAutoEncoderInit(layers, basis)
         IN  <<"training", prep \o m[2] \o <<"to_device", "optimizer">>>>

CreateLearnableDirections(results, layers, basis) ==
    IF cls = "LearnableDirections" THEN CreateLinear(results, layers, basis)
    ELSE CreateNonlinear(results, layers, basis)

\* a tensor's number of elements: tensor j of a snapshot has j of them
Numel(t) == Items(t)[2]

\* feature_dim: len(x[0]) (line 407), dataset.shape[0] (line 611)
FeatureDim(results) ==
    LET first == Items(results)[1]
    IN  SumSeq([j \in 1..PyLen(first) |-> Numel(Items(first)[j])])

\* the linear chain with each weight shaped <<rows it maps from, rows it maps to>>
LinearWeightsUntransposed(layers, basis, feature_dim) ==
    [i \in 1..layers |->
        <<IF i = 1 THEN feature_dim ELSE basis[i - 1],
          IF i = layers THEN 2 ELSE basis[i]>>]

\* the shapes Tensor(in_channels, out_channels) of the linear chain (lines 366-373)
LinearWeights(layers, basis, feature_dim) ==
    [i \in 1..layers |->
        IF i = 1 THEN <<basis[1], feature_dim>>
        ELSE IF i = layers THEN <<Bottleneck, basis[i - 1]>>
        ELSE <<basis[i], basis[i - 1]>>]

\* the shapes Tensor(in_dimension, out_dimension) of the nonlinear chain (lines 569-581)
NonlinearWeights(layers, basis, feature_dim) ==
    [i \in 1..layers |->
        <<IF i = 1 THEN feature_dim ELSE basis[i - 1],
          IF i = layers THEN Bottleneck ELSE basis[i]>>]

\* what create_learnable_directions trains (lines 409-411 / 613-615): the model
\* is built from feature_dim and intermediate_basis_count and takes the default
\* of its own `activation` parameter; kwargs are the method's keyword arguments
Chain(results, layers, basis, kwargs) ==
    [learnable_model_device |-> kwargs.learnable_model_device,
     autoencoder_lr |-> kwargs.autoencoder_lr,
     training_epochs |-> kwargs.training_epochs,
     early_stopping_epochs |-> kwargs.early_stopping_epochs,
     number_of_layers |-> layers,
     intermediate_basis_count |-> basis,
     activation |-> "relu",
     weights |-> IF cls = "LearnableDirections"
                 THEN LinearWeights(layers, basis, FeatureDim(results))
                 ELSE NonlinearWeights(layers, basis, FeatureDim(results))]

RecordCreate(caller, results, layers, basis, kwargs) ==
    LET r == CreateLearnableDirections(results, layers, basis)
    IN  /\ create_result' = [create_result EXCEPT ![caller] = r[1]]
        /\ create_trace' = [create_trace EXCEPT ![caller] = r[2]]
        /\ chain' = [chain EXCEPT
                        ![caller] = IF r[1] = "training"
                                    THEN <<Chain(results, layers, basis, kwargs)>>
                                    ELSE None]
        /\ UNCHANGED <<cls, trajectory, traj_losses, number_of_layers,
                       intermediate_basis_count, builder, ctor_result, options, forward>>
        /\ UNCHANGED otherThanBuild

\* calculate_directions of a learnable builder (lines 314-334 / 514-534)
CalculateDirections ==
    \E caller \in {"plain", "pairs"} :
        /\ cls \in LearnableClasses
        /\ ctor_result[caller] = "ok"
        /\ create_result[caller] = "none"
        /\ LET self == builder[caller][1]
           IN  RecordCreate(caller, self._intermediate_parameters, self.number_of_layers,
                            self.intermediate_basis_count,
                            [learnable_model_device |-> self.learnable_model_device,
                             autoencoder_lr |-> self.autoencoder_lr,
                             training_epochs |-> self.training_epochs,
                             early_stopping_epochs |-> self.early_stopping_epochs])

\* the static method called directly with the caller's arguments
CreateStatic ==
    /\ cls \in LearnableClasses
    /\ create_result["static"] = "none"
    /\ RecordCreate("static", AsPlain(trajectory), number_of_layers, intermediate_basis_count,
                    [learnable_model_device |-> options.learnable_model_device,
                     autoencoder_lr |-> options.autoencoder_lr,
                     training_epochs |-> options.training_epochs,
                     early_stopping_epochs |-> options.early_stopping_epochs])

\* A batch x on its way through the linear autoencoder: <<x.shape[1], the
\* operations applied so far>>; a product of mismatching shapes leaves -1.
\* x @ weight.t() for t = TRUE, x @ weight for t = FALSE, weight being weights[i]
MatMul(x, weights, i, t) ==
    LET rows == IF t THEN weights[i][2] ELSE weights[i][1]
        cols == IF t THEN weights[i][1] ELSE weights[i][2]
    IN  <<IF x[1] = rows THEN cols ELSE -1,
          Append(x[2], <<IF t THEN "matmul_t" ELSE "matmul", i>>)>>

Activation(x, i) == <<x[1], Append(x[2], <<"activation", i>>)>>

\* `for weight in ...: x = activation(x @ ...)` over the weights named by order
RECURSIVE Hidden(_, _, _, _)
Hidden(x, weights, order, t) ==
    IF order = <<>> THEN x
    ELSE Hidden(Activation(MatMul(x, weights, Head(order), t), Head(order)),
                weights, Tail(order), t)

\* project_to_visualization_space with the activation applied after every layer
ProjectToVisualizationSpaceActivated(x, weights) ==
    Hidden(x, weights, [i \in 1..Len(weights) |-> i], TRUE)

\* project_to_visualization_space (lines 450-457)
ProjectToVisualizationSpace(x, weights) ==
    LET n == Len(weights)
    IN  MatMul(Hidden(x, weights, [i \in 1..(n - 1) |-> i], TRUE), weights, n, TRUE)

\* project_to_original_space (lines 440-448): weights = weights[::-1]
ProjectToOriginalSpace(x, weights) ==
    LET n == Len(weights)
        reversed == [i \in 1..n |-> n + 1 - i]
    IN  MatMul(Hidden(x, weights, SubSeq(reversed, 1, n - 1), FALSE), weights, reversed[n], FALSE)

\* forward(x) of the linear autoencoder on the dataset (lines 379-386, 416)
Forward ==
    \E caller \in Callers :
        /\ cls = "LearnableDirections"
        /\ chain[caller] # None
        /\ forward[caller] = None
        /\ LET weights == chain[caller][1].weights
               dataset == <<FeatureDim(AsPlain(trajectory)), <<>>>>
               low == ProjectToVisualizationSpace(dataset, weights)
               back == ProjectToOriginalSpace(<<low[1], <<>>>>, weights)
           IN  forward' = [forward EXCEPT ![caller] = <<[project |-> low, reconstruct |-> back]>>]
        /\ UNCHANGED <<cls, trajectory, traj_losses, number_of_layers, intermediate_basis_count,
                       builder, ctor_result, create_result, create_trace, options, chain>>
        /\ UNCHANGED otherThanBuild

\* Learnable builders over list trajectories, with every configuration
InitBuild ==
    /\ IdleTrain /\ IdlePca /\ IdleNorm /\ IdleFrame
    /\ cls \in LearnableClasses
    /\ trajectory \in Trajectories({"list"})
    /\ traj_losses = [k \in 1..Len(trajectory) |-> 0]
    /\ number_of_layers \in 1..MaxLayers
    /\ intermediate_basis_count \in SeqsOf(1..MaxBasis, 0, MaxBasisLen)
    /\ options = DefaultOptions
    /\ FreshBuild

BuildNext ==
    ConstructPlain \/ ConstructPairs \/ CalculateDirections \/ CreateStatic \/ Forward

SpecBuild == InitBuild /\ [][BuildNext]_vars

\* Every builder class over trajectories of lists and tuples, default configuration
InitStore ==
    /\ IdleTrain /\ IdlePca /\ IdleNorm /\ IdleFrame
    /\ cls \in Classes
    /\ trajectory \in Trajectories({"list", "tuple"})
    /\ traj_losses \in [1..Len(trajectory) -> {0, 1}]
    /\ number_of_layers = 3
    /\ intermediate_basis_count = <<64, 32>>
    /\ options = DefaultOptions
    /\ FreshBuild

StoreNext == ConstructPlain \/ ConstructPairs

SpecStore == InitStore /\ [][StoreNext]_vars

-----------------------------------------------------------------------------
(* Claims about construction and set-up *)

\* an inconsistent configuration of a chain of at least two layers
Mismatch == number_of_layers >= 2 /\ Len(intermediate_basis_count) # number_of_layers - 1

\* C4 (as claimed): the constructor of a learnable builder fails whenever the
\* trajectory is empty or len(intermediate_basis_count) # number_of_layers - 1,
\* so no builder with an inconsistent configuration exists.
C4_ConstructorRejectsInconsistentConfig ==
    \A c \in {"plain", "pairs"} :
        (ctor_result[c] # "none" /\ (Len(trajectory) = 0 \/ Mismatch))
            => (ctor_result[c] # "ok" /\ builder[c] = None)

\* C5 (as claimed): in create_learnable_directions of either variant an empty
\* trajectory or a basis-count-length mismatch is raised as a precondition
\* failure before any computation step (flattening, stacking, model, loss,
\* optimizer) has been done.
C5_PreconditionsBeforeComputation ==
    \A c \in Callers :
        (create_result[c] # "none"
            /\ ((c = "static" /\ Len(trajectory) = 0) \/ Mismatch))
            => /\ create_result[c] \in {"ValueError", "AssertionError"}
               /\ create_trace[c] = <<>>

\* C10 (as claimed): when a builder has been constructed from the plain
\* trajectory and one from the (ParameterSet, loss) pairs, both hold the same
\* trajectory: the caller's ParameterSets, unchanged and in order.
C10_PairsStoredLikePlain ==
    (ctor_result["plain"] = "ok" /\ ctor_result["pairs"] = "ok")
        => /\ builder["pairs"][1]._intermediate_parameters
                = builder["plain"][1]._intermediate_parameters
           /\ builder["plain"][1]._intermediate_parameters = AsPlain(trajectory)

-----------------------------------------------------------------------------
(* The training loop *)

\* line 414 / 618, with the model as built by lines 409-411 / 613-615
InitTrain ==
    /\ IdleBuild
    /\ IdlePca
    /\ IdleNorm
    /\ IdleFrame
    /\ variant \in {"linear", "nonlinear"}
    /\ training_epochs \in 0..MaxEpochs
    /\ early_stopping_epochs \in 0..MaxPatience
    /\ pc = "loop"
    /\ pbar = 0
    /\ epoch = -1
    /\ best_epoch = 0
    /\ best_loss = PosInf
    /\ best_model_state_dict = None
    /\ model_weights = 0
    /\ history = <<>>
    /\ broke = FALSE
    /\ returned = None

\* `if epoch_loss < best_loss`
Improves(epoch_loss, best) == FloatLess(epoch_loss, best)

\* `deepcopy(model.state_dict())` taken after optimizer.step(): the stepped weights
Checkpoint(weights_before_step, weights_after_step) == <<weights_after_step>>

\* a checkpoint that is model.state_dict() itself: it holds the model's own
\* tensors, which optimizer.step() updates
KeptAliased(checkpoint, weights_after_step) ==
    IF checkpoint = None THEN None ELSE <<weights_after_step>>

\* the checkpoint of an earlier epoch after another optimizer.step(): deepcopy
\* (line 430 / 634) shares no tensor with the model
Kept(checkpoint, weights_after_step) == checkpoint

\* the loop without its `break`
StopsEarlyNever(e, be, patience) == FALSE

\* the patience test written with > instead of >=
StopsEarlyStrict(e, be, patience) == e - be > patience

\* `if epoch - best_epoch >= early_stopping_epochs: break`
StopsEarly(e, be, patience) == e - be >= patience

\* One iteration of the loop body (lines 416-435 / 620-639); `loss` is loss.item().
TrainEpoch(loss) ==
    LET e == pbar
        stepped == model_weights + 1
        better == Improves(loss, best_loss)
        be == IF better THEN e ELSE best_epoch
    IN  /\ pc = "loop"
        /\ pbar < training_epochs
        /\ epoch' = e
        /\ pbar' = pbar + 1
        /\ history' = Append(history, <<loss, model_weights, better>>)
        /\ model_weights' = stepped
        /\ best_epoch' = be
        /\ best_loss' = IF better THEN loss ELSE best_loss
        /\ best_model_state_dict' =
               IF better THEN Checkpoint(model_weights, stepped)
               ELSE Kept(best_model_state_dict, stepped)
        /\ IF StopsEarly(e, be, early_stopping_epochs)
           THEN pc' = "load" /\ broke' = TRUE
           ELSE pc' = "loop" /\ broke' = broke
        /\ UNCHANGED <<variant, training_epochs, early_stopping_epochs, returned>>
        /\ UNCHANGED otherThanTrain

LinearEpoch == variant = "linear" /\ \E loss \in LossValues : TrainEpoch(loss)

NonlinearEpoch == variant = "nonlinear" /\ \E loss \in LossValues : TrainEpoch(loss)

\* range(training_epochs) is exhausted: the for statement ends
LoopExhausted ==
    /\ pc = "loop"
    /\ pbar >= training_epochs
    /\ pc' = "load"
    /\ UNCHANGED <<variant, training_epochs, early_stopping_epochs, pbar, epoch, best_epoch,
                   best_loss, best_model_state_dict, model_weights, history, broke, returned>>
    /\ UNCHANGED otherThanTrain

\* `model.load_state_dict(best_model_state_dict)` and the return (lines 437-438 / 641-642);
\* load_state_dict(None) raises.
LoadBestState ==
    /\ pc = "load"
    /\ IF best_model_state_dict = None
       THEN pc' = "error" /\ UNCHANGED <<model_weights, returned>>
       ELSE /\ model_weights' = best_model_state_dict[1]
            /\ returned' = <<best_model_state_dict[1]>>
            /\ pc' = "done"
    /\ UNCHANGED <<variant, training_epochs, early_stopping_epochs, pbar, epoch, best_epoch,
                   best_loss, best_model_state_dict, history, broke>>
    /\ UNCHANGED otherThanTrain

TrainNext == LinearEpoch \/ NonlinearEpoch \/ LoopExhausted \/ LoadBestState

SpecTrain == InitTrain /\ [][TrainNext]_vars

\* the loop and the statements after it run on: no step waits for anything
SpecTrainFair == SpecTrain /\ WF_vars(TrainNext)

-----------------------------------------------------------------------------
(* Claims about the training loop *)

Finished == pc \in {"load", "done", "error"}

\* C1 (as claimed): the returned weights are the weights from which the lowest
\* observed epoch loss, recorded as best_loss, was computed.
C1_ReturnedWeightsProducedBestLoss ==
    pc = "done" =>
        \E i \in 1..Len(history) :
            /\ history[i][2] = returned[1]
            /\ history[i][1] = best_loss
            /\ \A j \in 1..Len(history) : ~FloatLess(history[j][1], history[i][1])

\* C2 (as claimed): a run never ends in an error for want of a captured checkpoint.
C2_NeverFailsWithoutCheckpoint == pc # "error"

\* the last n executed epochs all failed to improve on best_loss
Stalled(n) ==
    /\ Len(history) >= n
    /\ \A i \in (Len(history) - n + 1)..Len(history) : ~history[i][3]

\* C3 (as claimed): whenever the loop halts because early_stopping_epochs (at
\* least one) consecutive epochs have passed without improvement, fewer than
\* training_epochs epochs have been executed.
C3_EarlyStopBeforeTrainingEpochs ==
    (broke /\ early_stopping_epochs >= 1 /\ Stalled(early_stopping_epochs))
        => pbar < training_epochs

\* C3 (amended): the loop goes on only while epoch - best_epoch is below the
\* patience (once some epoch has improved: only while fewer than
\* early_stopping_epochs consecutive epochs have passed without improvement);
\* when an epoch ends with epoch - best_epoch >= early_stopping_epochs the loop
\* is left at that epoch, no later epoch runs, and the number of epochs executed
\* is at most training_epochs.
C3_EarlyStopHaltsAtOnce ==
    /\ (pc = "loop" /\ pbar > 0) =>
          /\ epoch - best_epoch < early_stopping_epochs
          /\ best_model_state_dict # None => ~Stalled(early_stopping_epochs)
    /\ broke =>
          /\ Finished
          /\ epoch - best_epoch >= early_stopping_epochs
          /\ best_model_state_dict # None => Stalled(early_stopping_epochs)
          /\ pbar = epoch + 1
          /\ pbar <= training_epochs

\* the patience runs out in the final epoch, after an improvement in a later
\* epoch than the first
C3_Witness ==
    /\ broke
    /\ pbar = training_epochs
    /\ early_stopping_epochs > 0
    /\ best_epoch > 0

-----------------------------------------------------------------------------
(* Tensor storage: which tensors a builder reads, creates and writes        *)
(* (RandomDirections 76-139, PcaDirections 175-200, SvdDirections 668-693,  *)
(* the learnable builders 314-334 and 514-534).  A tensor is an id into     *)
(* heap; two names of one tensor hold the same id.                          *)

FrameClasses == Classes \cup {"RandomDirections"}

\* ids of the n tensors created next on heap h
NewIds(h, n) == [i \in 1..n |-> Len(h) + i]

\* the tensors the caller owns
CallerIds ==
    {frame_parameters[i] : i \in DOMAIN frame_parameters}
        \cup UNION {{frame_trajectory[k][i] : i \in DOMAIN frame_trajectory[k]} :
                       k \in DOMAIN frame_trajectory}

\* [randn(w.size(), device=w.device) for w in parameters]: new tensors
GetRandomParameters(h, params) == h \o [i \in DOMAIN params |-> <<"randn", 0>>]

\* normalize_direction_using_params called with its two arguments exchanged
NormalizeDirectionsSwapped(h, dirs, params) ==
    [id \in DOMAIN h |->
        IF \E i \in 1..Min(Len(dirs), Len(params)) : params[i] = id
        THEN <<"normalized", dirs[CHOOSE i \in 1..Min(Len(dirs), Len(params)) : params[i] = id]>>
        ELSE h[id]]

\* normalize_direction_using_params(direction, parameters): `direction *=
\* scaling_factor` rewrites each direction tensor that zip pairs with a parameter
NormalizeDirections(h, dirs, params) ==
    [id \in DOMAIN h |->
        IF \E i \in 1..Min(Len(dirs), Len(params)) : dirs[i] = id
        THEN <<"normalized", params[CHOOSE i \in 1..Min(Len(dirs), Len(params)) : dirs[i] = id]>>
        ELSE h[id]]

\* create_random_direction_from_parameters: <<heap after the call, the direction>>;
\* p.data is the storage of p itself
CreateRandomDirection(h, params, apply) ==
    LET data == params
        created == GetRandomParameters(h, data)
        dirs == NewIds(h, Len(data))
    IN  <<IF apply THEN NormalizeDirections(created, dirs, data) ELSE created, dirs>>

\* the flat tensors a builder computes from the trajectory: parameters_to_vector,
\* the differences, and the two basis vectors it selects; all of them new
FlatDirections(h, params, traj) ==
    h \o <<<<"vector", 0>>>> \o [k \in DOMAIN traj |-> <<"difference", k>>]
      \o <<<<"basis", 1>>, <<"basis", 2>>>>

\* clone_parameters(parameters): a deep copy of each tensor
CloneParameters(h, params) == h \o [i \in DOMAIN params |-> <<"clone", params[i]>>]

\* vector_to_parameters(vec, params): writes the slices of vec into params
VectorToParameters(h, vec, params) ==
    [id \in DOMAIN h |->
        IF \E i \in DOMAIN params : params[i] = id THEN <<"slice", vec>> ELSE h[id]]

\* b1, b2 of the flat basis vectors as ParameterSets: lines 193-200 and 684-693
AsParameterSets(h, params) ==
    LET v1 == Len(h) - 1
        v2 == Len(h)
        c1 == CloneParameters(h, params)
        b1_param == NewIds(h, Len(params))
        c2 == CloneParameters(c1, params)
        b2_param == NewIds(c1, Len(params))
    IN  <<VectorToParameters(VectorToParameters(c2, v1, b1_param), v2, b2_param),
          <<b1_param, b2_param>>>>

\* the autoencoder's weights after training: created by the model's constructor,
\* updated by optimizer.step() and load_state_dict
TrainedWeights(h, layers) == h \o [i \in 1..layers |-> <<"weight", i>>]

FrameConstruct ==
    /\ frame_result = "none"
    /\ IF frame_cls # "RandomDirections" /\ Len(frame_trajectory) = 0
       THEN frame_result' = "ValueError" /\ frame_self' = frame_self
       ELSE /\ frame_result' = "built"
            /\ frame_self' =
                  <<frame_parameters,
                    IF frame_cls = "RandomDirections" THEN None ELSE frame_trajectory>>
    /\ UNCHANGED <<frame_cls, apply_normalization, heap, frame_parameters, frame_trajectory,
                   frame_out>>
    /\ UNCHANGED otherThanFrame

RandomCalculate ==
    /\ frame_result = "built"
    /\ frame_cls = "RandomDirections"
    /\ LET x == CreateRandomDirection(heap, frame_self[1], apply_normalization)
           y == CreateRandomDirection(x[1], frame_self[1], apply_normalization)
       IN  /\ heap' = y[1]
           /\ frame_out' = <<x[2], y[2]>>
    /\ frame_result' = "done"
    /\ UNCHANGED <<frame_cls, apply_normalization, frame_parameters, frame_trajectory, frame_self>>
    /\ UNCHANGED otherThanFrame

PcaCalculate ==
    /\ frame_result = "built"
    /\ frame_cls = "PcaDirections"
    /\ LET flat == FlatDirections(heap, frame_self[1], frame_self[2])
           sets == AsParameterSets(flat, frame_self[1])
       IN  /\ heap' = sets[1]
           /\ frame_out' = sets[2]
    /\ frame_result' = "done"
    /\ UNCHANGED <<frame_cls, apply_normalization, frame_parameters, frame_trajectory, frame_self>>
    /\ UNCHANGED otherThanFrame

SvdCalculate ==
    /\ frame_result = "built"
    /\ frame_cls = "SvdDirections"
    /\ LET flat == FlatDirections(heap, frame_self[1], frame_self[2])
           sets == AsParameterSets(flat, frame_self[1])
       IN  /\ heap' = sets[1]
           /\ frame_out' = sets[2]
    /\ frame_result' = "done"
    /\ UNCHANGED <<frame_cls, apply_normalization, frame_parameters, frame_trajectory, frame_self>>
    /\ UNCHANGED otherThanFrame

\* the learnable builders return the trained weights (the linear one) or the
\* subspace holding them (the nonlinear one)
LearnableCalculate ==
    /\ frame_result = "built"
    /\ frame_cls \in LearnableClasses
    /\ \E layers \in 1..MaxLayers :
          LET flat == FlatDirections(heap, frame_self[1], frame_self[2])
          IN  /\ heap' = TrainedWeights(flat, layers)
              /\ frame_out' = <<NewIds(flat, layers), <<>>>>
    /\ frame_result' = "done"
    /\ UNCHANGED <<frame_cls, apply_normalization, frame_parameters, frame_trajectory, frame_self>>
    /\ UNCHANGED otherThanFrame

\* the caller owns m optimized tensors and n snapshots of m tensors each; the
\* last snapshot may be the optimized parameters themselves
InitFrame ==
    /\ IdleTrain
    /\ IdleBuild
    /\ IdlePca
    /\ IdleNorm
    /\ frame_cls \in FrameClasses
    /\ apply_normalization \in BOOLEAN
    /\ \E m \in 1..MaxParams, n \in 0..MaxTraj, shared \in BOOLEAN :
          /\ shared => n > 0
          /\ frame_parameters = [i \in 1..m |-> i]
          /\ frame_trajectory =
                [k \in 1..n |-> [i \in 1..m |-> IF shared /\ k = n THEN i ELSE k * m + i]]
          /\ heap = [id \in 1..((n + 1) * m) |-> <<"caller", id>>]
    /\ frame_self = None
    /\ frame_result = "none"
    /\ frame_out = None

FrameNext ==
    FrameConstruct \/ RandomCalculate \/ PcaCalculate \/ SvdCalculate \/ LearnableCalculate

SpecFrame == InitFrame /\ [][FrameNext]_vars

\* C11: no constructor and no calculate_directions changes a tensor of the
\* caller (an optimized parameter or a tensor of a trajectory snapshot): every
\* such tensor keeps the content it had, the builder keeps the caller's own
\* tensors, and what is returned are tensors created within the call.
C11_CallerTensorsUntouched ==
    /\ \A id \in CallerIds : heap[id] = <<"caller", id>>
    /\ frame_self # None => frame_self[1] = frame_parameters
    /\ frame_out # None =>
          \A j \in 1..2 : \A i \in DOMAIN frame_out[j] : frame_out[j][i] \notin CallerIds

\* a call has rewritten tensors in place: filter-normalized directions, or
\* basis vectors written into clones, while a snapshot is the optimized
\* parameters themselves
C11_Witness ==
    /\ frame_result = "done"
    /\ frame_cls \in {"RandomDirections", "PcaDirections"}
    /\ apply_normalization
    /\ \E k \in DOMAIN frame_trajectory : frame_trajectory[k] = frame_parameters
    /\ \E id \in DOMAIN heap : heap[id][1] \in {"normalized", "slice"}

-----------------------------------------------------------------------------
(* The configuration a learnable builder is constructed with, and the one   *)
(* its chain is trained with                                                *)

\* a valid two-layer configuration with every other option given by the caller
InitConfig ==
    /\ IdleTrain /\ IdlePca /\ IdleNorm /\ IdleFrame
    /\ cls \in LearnableClasses
    /\ trajectory \in Trajectories({"list"}) \ {<<>>}
    /\ traj_losses = [k \in 1..Len(trajectory) |-> 0]
    /\ number_of_layers = 2
    /\ intermediate_basis_count \in SeqsOf(1..MaxBasis, 1, 1)
    /\ options \in [learnable_model_device : {"cpu", "cuda"},
                    autoencoder_lr : {"0.01", "0.1"},
                    training_epochs : {1000, 10},
                    early_stopping_epochs : {250, 5},
                    activation : {"relu", "tanh"}]
    /\ FreshBuild

SpecConfig == InitConfig /\ [][BuildNext]_vars

\* C12 (as claimed): the chain that calculate_directions trains uses every
\* configuration value the builder was constructed with: device, number of
\* layers, basis counts, learning rate, training epochs, patience, activation.
C12_ChainUsesGivenConfiguration ==
    \A caller \in {"plain", "pairs"} :
        chain[caller] # None =>
            /\ chain[caller][1].learnable_model_device = options.learnable_model_device
            /\ chain[caller][1].number_of_layers = number_of_layers
            /\ chain[caller][1].intermediate_basis_count = intermediate_basis_count
            /\ chain[caller][1].autoencoder_lr = options.autoencoder_lr
            /\ chain[caller][1].training_epochs = options.training_epochs
            /\ chain[caller][1].early_stopping_epochs = options.early_stopping_epochs
            /\ chain[caller][1].activation = options.activation

-----------------------------------------------------------------------------
(* PCA and SVD of one trajectory (lines 202-248 and 696-727).  The samples  *)
(* are the trajectories whose covariance matrix and whose matrix of second  *)
(* moments are both diagonal: the eigenvectors of either are unit vectors.  *)

Features == 1..MaxFeatures

Vectors == [Features -> (0 - MaxCoord)..MaxCoord]

\* sum over the samples of x[f] * x[g]: entry (f, g) of dataset.T @ dataset
Moment(X, f, g) == SumSeq([i \in DOMAIN X |-> X[i][f] * X[i][g]])

ColumnSum(X, f) == SumSeq([i \in DOMAIN X |-> X[i][f]])

\* entry (f, g) of cov(stack(samples, dim=1)) (line 210), times N * (N - 1):
\* torch.cov takes each feature's deviations from that feature's mean over the
\* samples
Cov(X, f, g) == Len(X) * Moment(X, f, g) - ColumnSum(X, f) * ColumnSum(X, g)

BothDiagonal(X) ==
    \A f \in Features : \A g \in Features \ {f} : Cov(X, f, g) = 0 /\ Moment(X, f, g) = 0

\* calculate_covariance_matrix (lines 202-211)
CalculateCovarianceMatrix ==
    /\ pca_result = "samples"
    /\ covariance_matrix' = [f \in Features |-> Cov(samples, f, f)]
    /\ pca_result' = "none"
    /\ UNCHANGED <<eigen_values, eigen_vectors, logged, b1, b2, samples, svd_directions>>
    /\ UNCHANGED otherThanPca

\* svd_lowrank(dataset, q=2) (line 722): V[:, 0] and V[:, 1] are right-singular
\* vectors of the two largest singular values, largest first; they are
\* eigenvectors of dataset.T @ dataset
SvdLowrank(X) ==
    {p \in Features \X Features :
        /\ p[1] # p[2]
        /\ Moment(X, p[1], p[1]) >= Moment(X, p[2], p[2])
        /\ \A k \in Features \ {p[1], p[2]} : Moment(X, k, k) <= Moment(X, p[2], p[2])}

\* SvdDirections.create_learnable_directions (lines 696-727)
SvdCreateDirections ==
    /\ samples # <<>>
    /\ svd_directions = None
    /\ \E p \in SvdLowrank(samples) : svd_directions' = p
    /\ UNCHANGED <<covariance_matrix, eigen_values, eigen_vectors, logged, b1, b2, pca_result,
                   samples>>
    /\ UNCHANGED otherThanPca

\* trajectories of at least two snapshots
InitTrajectory ==
    /\ IdleTrain
    /\ IdleBuild
    /\ IdleNorm
    /\ IdleFrame
    /\ samples \in SeqsOf(Vectors, 2, MaxSamples)
    /\ BothDiagonal(samples)
    /\ covariance_matrix = <<>>
    /\ eigen_values = <<>>
    /\ eigen_vectors = <<>>
    /\ logged = <<>>
    /\ b1 = 0
    /\ b2 = 0
    /\ pca_result = "samples"
    /\ svd_directions = None

TrajectoryNext ==
    CalculateCovarianceMatrix \/ CalculateEigenpairs \/ SelectDirections \/ SvdCreateDirections

SpecTrajectory == InitTrajectory /\ [][TrajectoryNext]_vars

\* the features in which some snapshot differs from the optimized parameters
Support == {f \in Features : \E i \in DOMAIN samples : samples[i][f] # 0}

\* the snapshots lie on one plane through the optimized parameters, spanned by
\* two unit vectors, and two of the snapshots span it
OnOnePlane ==
    /\ Cardinality(Support) = 2
    /\ \E p \in Support, q \in Support, i \in DOMAIN samples, j \in DOMAIN samples :
          samples[i][p] * samples[j][q] # samples[i][q] * samples[j][p]

\* C13 (as claimed): when all snapshots lie on a plane through the optimized
\* parameters, the two directions of PcaDirections span that plane and the two
\* logged percentages add up to 100.
C13_PcaRecoversThePlane ==
    (pca_result = "ok" /\ OnOnePlane) =>
        /\ {b1, b2} = Support
        /\ logged[1][2] # 0
        /\ logged[1][1] + logged[2][1] = 100 * logged[1][2]

\* the two largest eigenvalues of M(f, f) are above every other one: the
\* subspace of the two leading eigenvectors is unique
Leading(M(_, _), S) ==
    /\ Cardinality(S) = 2
    /\ \A f \in S : \A g \in Features \ S : M(f, f) > M(g, g)

CovOfSamples(f, g) == Cov(samples, f, g)

MomentOfSamples(f, g) == Moment(samples, f, g)

\* C14 (as claimed): for one trajectory, the two directions of PcaDirections
\* and the two of SvdDirections span the same subspace; stated where each
\* builder's leading subspace is unique.
C14_PcaAndSvdSpanTheSame ==
    (/\ pca_result = "ok"
     /\ svd_directions # None
     /\ \E S \in SUBSET Features : Leading(CovOfSamples, S)
     /\ \E S \in SUBSET Features : Leading(MomentOfSamples, S))
        => {b1, b2} = {svd_directions[1], svd_directions[2]}

-----------------------------------------------------------------------------
(* The weight chain of the learnable builders and the forward pass          *)

\* the dimension a layer maps from and the one it maps to: the linear builder
\* multiplies by weight.t() on the way down (lines 454-456) and shapes its
\* weights accordingly; the nonlinear builder names them in_dimension and
\* out_dimension (line 577)
LayerIn(w) == IF cls = "LearnableDirections" THEN w[2] ELSE w[1]
LayerOut(w) == IF cls = "LearnableDirections" THEN w[1] ELSE w[2]

ValidChain(caller) ==
    /\ chain[caller] # None
    /\ number_of_layers >= 2

\* C15: with at least two layers and number_of_layers - 1 basis counts, either
\* builder's chain has number_of_layers weights, the first maps from the F
\* features, each layer maps to the dimension the next one maps from, and the
\* last maps to 2; the linear builder's projection takes the F-dimensional
\* dataset to 2 coordinates and its reconstruction takes them back to F.
C15_ChainTelescopes ==
    \A caller \in Callers :
        ValidChain(caller) =>
            LET weights == chain[caller][1].weights
                F == FeatureDim(AsPlain(trajectory))
            IN  /\ Len(intermediate_basis_count) = number_of_layers - 1
                /\ Len(weights) = number_of_layers
                /\ LayerIn(weights[1]) = F
                /\ \A i \in 1..(Len(weights) - 1) :
                      /\ LayerOut(weights[i]) = LayerIn(weights[i + 1])
                      /\ LayerOut(weights[i]) = intermediate_basis_count[i]
                /\ LayerOut(weights[Len(weights)]) = 2
                /\ forward[caller] # None =>
                      /\ forward[caller][1].project[1] = 2
                      /\ forward[caller][1].reconstruct[1] = F

\* a three-layer linear chain over 3 features with different basis counts has
\* run its forward pass
C15_Witness ==
    /\ cls = "LearnableDirections"
    /\ ValidChain("plain")
    /\ forward["plain"] # None
    /\ number_of_layers = 3
    /\ intermediate_basis_count[1] # intermediate_basis_count[2]
    /\ FeatureDim(AsPlain(trajectory)) = 3

IsMatMul(op) == op[1] \in {"matmul", "matmul_t"}
IsActivation(op) == op[1] = "activation"

\* in the operations ops, the products are by the weights `order`, each of the
\* kind `product`; an activation follows every product but the last, and
\* nothing else is applied
ActivatedBetween(ops, order, product) ==
    /\ SelectSeq(ops, IsMatMul) = [n \in DOMAIN order |-> <<product, order[n]>>]
    /\ Len(SelectSeq(ops, IsActivation)) = Len(order) - 1
    /\ Len(ops) = 2 * Len(order) - 1
    /\ \A n \in DOMAIN ops : IsActivation(ops[n]) <=> n % 2 = 0
    /\ IsMatMul(ops[Len(ops)])

\* C16: on a chain of L >= 2 weights, project_to_visualization_space multiplies
\* by the transposed weights 1..L in that order and applies the activation
\* L - 1 times, after every product but the last; project_to_original_space
\* multiplies by the weights L..1 in that order and applies the activation
\* L - 1 times, after every product but the last.
C16_ActivationBetweenLayersOnly ==
    \A caller \in Callers :
        (ValidChain(caller) /\ forward[caller] # None) =>
            LET L == Len(chain[caller][1].weights)
            IN  /\ ActivatedBetween(forward[caller][1].project[2],
                                    [n \in 1..L |-> n], "matmul_t")
                /\ ActivatedBetween(forward[caller][1].reconstruct[2],
                                    [n \in 1..L |-> L + 1 - n], "matmul")

\* the forward pass of a three-layer chain built by calculate_directions
C16_Witness ==
    /\ ValidChain("pairs")
    /\ forward["pairs"] # None
    /\ Len(chain["pairs"][1].weights) = 3
    /\ Len(forward["pairs"][1].project[2]) = 5

-----------------------------------------------------------------------------
(* Termination and the best-epoch bookkeeping of the training loop          *)

\* the epochs executed so far are within both limits
LoopBounded ==
    /\ Len(history) = pbar
    /\ pbar <= training_epochs
    /\ pbar > 0 =>
          /\ epoch = pbar - 1
          /\ epoch - best_epoch <= early_stopping_epochs
    /\ (pc = "loop" /\ pbar > 0) => epoch + 1 - best_epoch <= early_stopping_epochs
    /\ early_stopping_epochs = 0 =>
          /\ pbar <= 1
          /\ (Finished /\ training_epochs >= 1) => pbar = 1

\* C17: the loop terminates for every loss sequence: it executes at most
\* training_epochs epochs, every executed epoch is at most early_stopping_epochs
\* after best_epoch (also the one about to start), with early_stopping_epochs = 0
\* and training_epochs >= 1 exactly one epoch is executed, and the call comes
\* to its end (the return or the exception of load_state_dict).
C17_LoopTerminates == []LoopBounded /\ <>(pc \in {"done", "error"})

\* the patience of at least one epoch ran out after a late improvement, before
\* training_epochs epochs were executed
C17_Witness ==
    /\ pc = "done"
    /\ broke
    /\ early_stopping_epochs >= 1
    /\ best_epoch >= 1
    /\ epoch = best_epoch + early_stopping_epochs
    /\ pbar < training_epochs

\* some executed epoch's loss compared lower than the initial best_loss
SomeImproved == \E i \in 1..Len(history) : FloatLess(history[i][1], PosInf)

BestBookkeeping ==
    (pbar > 0 /\ SomeImproved) =>
        /\ best_epoch + 1 \in 1..Len(history)
        /\ history[best_epoch + 1][1] = best_loss
        /\ \A i \in 1..Len(history) : ~FloatLess(history[i][1], best_loss)
        /\ \A i \in 1..best_epoch : history[i][1] # best_loss
        /\ best_model_state_dict = <<history[best_epoch + 1][2] + 1>>

\* C18: after every epoch, once some epoch's loss was below the initial
\* best_loss: best_loss is an observed loss that no observed loss is below,
\* best_epoch is the earliest epoch with that loss, the checkpoint holds the
\* weights as they were when epoch best_epoch took it (after that epoch's
\* optimizer step); best_loss never goes up, and a checkpoint is only ever
\* replaced in an epoch that becomes best_epoch.
C18_BestEpochBookkeeping ==
    /\ []BestBookkeeping
    /\ [][/\ ~FloatLess(best_loss, best_loss')
          /\ (best_model_state_dict # None /\ best_model_state_dict' # best_model_state_dict)
                => (best_epoch' = epoch' /\ best_epoch' > best_epoch)]_vars

\* a later epoch repeated the best loss without replacing best_epoch, and the
\* model was stepped twice more after the checkpoint was taken
C18_Witness ==
    /\ pc = "loop"
    /\ best_epoch >= 1
    /\ best_model_state_dict # None
    /\ model_weights >= best_model_state_dict[1] + 2
    /\ \E i \in (best_epoch + 2)..Len(history) : history[i][1] = best_loss

====
